---- MODULE Spec2Model ----
(***************************************************************************)
(* The lead-capture handler of skulpture.xyz: one request carrying contact *)
(* fields and optional file attachments, as processed by the five handler  *)
(* revisions of the repository.                                            *)
(*                                                                         *)
(*   "main"     src/api/main.go              serial upload loop            *)
(*   "part000"  src/unnamed/part_000         one goroutine per file        *)
(*   "part001"  src/unnamed/part_001         serial, cloud function        *)
(*   "post1"    src/api/post-lead/post.go    first revision  (l. 1-192)    *)
(*   "post2"    src/api/post-lead/post.go    second revision (l. 194-429)  *)
(*                                                                         *)
(* The storage backend (quota query, create, delete), the multipart parser,*)
(* the validator and the mail client are the environment: each call's      *)
(* outcome is a nondeterministic choice, and so is whether the environment *)
(* variables the mail step looks up are set.                               *)
(***************************************************************************)
EXTENDS Integers, Sequences, FiniteSets, TLC

\* ------------------------------------------------------------- bounds
\* files of one request handled by a serial revision
MaxFiles == 3
\* files of one request handled by the concurrent revision
MaxWorkers == 2
\* size of one file, in bytes
MaxSize == 2
\* largest limit / usage the quota query reports
MaxQuota == 2

\* ------------------------------------------------------------- HTTP statuses
StatusOK == 200
StatusBadRequest == 400
StatusMethodNotAllowed == 405
StatusInternalServerError == 500
StatusInsufficientStorage == 507

VARIABLES
    rev,                 \* which handler revision serves the request
    valid,               \* does validate.Struct(body) accept the form fields
    parseFailed,         \* r.ParseMultipartForm returned an error
    validated,           \* validate.Struct(body) has returned nil
    files,               \* r.MultipartForm.File["files"]: the sizes, in input order
    hpc,                 \* position of the handler goroutine
    status,              \* status written to w; 0 while nothing is written
    panicked,            \* the handler goroutine panicked
    enquiry,             \* body.Enquiry
    emailSent,           \* number of SendTemplatedEmail calls
    quotaQueries,        \* number of About.Get calls
    quotaFailed,         \* the About.Get call returned an error
    limit,               \* about.StorageQuota.Limit
    usageInDrive,        \* about.StorageQuota.UsageInDrive, as returned
    currentUsage,        \* the serial revisions' running total
    idx,                 \* index of the file the range loop is at
    uploadedFiles,       \* serial: []*drive.File, the ids of the created files
    uploadedFileLinks,   \* serial: []string, the bullets
    attachedFiles,       \* concurrent: []string, the bullets
    collected,           \* concurrent: ids received by the collecting range loop
    createCalls,         \* per file, the number of Files.Create(...).Do() calls
    outcome,             \* per file, how its open / create ended
    deleteBuilt,         \* ids a Files.Delete call object was built for
    deleteCalls,         \* per file, the number of Files.Delete(...).Do() calls
    onBackend,           \* ids stored on the backend
    wpc,                 \* concurrent: position of each uploadFile goroutine
    del,                 \* concurrent: state of each rollback delete goroutine
    uploadCtxDone,       \* uploadCtx.Done() is closed
    reqCanceled,         \* r.Context() was canceled
    fileUploadWg,        \* the WaitGroup's counter
    cpc,                 \* position of the goroutine that closes the channels
    uploadedFilesClosed, \* close(uploadedFiles) has run
    failedToUploadClosed \* close(failedToUpload) has run

vars == <<rev, valid, parseFailed, validated, files, hpc, status, panicked, enquiry, emailSent, quotaQueries,
          quotaFailed, limit, usageInDrive, currentUsage, idx, uploadedFiles,
          uploadedFileLinks, attachedFiles, collected, createCalls, outcome,
          deleteBuilt, deleteCalls, onBackend, wpc, del, uploadCtxDone,
          reqCanceled, fileUploadWg, cpc, uploadedFilesClosed,
          failedToUploadClosed>>

inVars == <<rev, valid, files>>
reqVars == <<inVars, parseFailed, validated, panicked>>
quotaVars == <<quotaQueries, quotaFailed, limit, usageInDrive>>
serialVars == <<currentUsage, uploadedFiles, uploadedFileLinks>>
storeVars == <<createCalls, outcome, deleteBuilt, deleteCalls, onBackend>>
chanVars == <<fileUploadWg, cpc, uploadedFilesClosed, failedToUploadClosed>>
ctxVars == <<uploadCtxDone, reqCanceled>>
concVars == <<attachedFiles, collected, wpc, del>>

\* ------------------------------------------------------------- revisions
Revisions == {"main", "part000", "part001", "post1", "post2"}

Concurrent(r) == r = "part000"

\* The cloud-function revisions reject every method but POST.
HasMethodCheck(r) == r \in {"part001", "post1", "post2"}

\* Every revision but the first one of post.go wraps the upload logic in
\* `if len(files) > 0`.
GuardsEmptyFiles(r) == r # "post1"

\* The revisions that go on to postmarkClient.SendTemplatedEmail.
SendsEmail(r) == r \in {"main", "part000", "post2"}

\* The revisions whose mail step looks environment variables up with
\* os.Getenv and panics when one is unset or does not parse.
ReadsMailEnv(r) == r \in {"main", "post2"}

\* The revision that creates its mail client on the first request and panics
\* when a token is unset.
CreatesMailClient(r) == r = "post2"

FileIds == 1..Len(files)

\* ------------------------------------------------------------- strings
\* A string is a sequence of tokens; every token is a pair <<kind, n>>.
NL == <<"\\n", 0>>
OriginalText == << <<"enquiry", 0>> >>
AttachedFilesHeader == << <<"Attached files:", 0>> >>

\* res.WebContentLink of the file created for input file i
WebContentLink(i) == << <<"link", i>> >>

\* Sprintf with the verb left out of the format string.
Sprintf_NoVerb(link) == << <<"- ", 0>> >>

\* fmt.Sprintf("- %s", link)
Sprintf(link) == << <<"- ", 0>> >> \o link

\* strings.Join(elems, "\n")
RECURSIVE Join(_)
Join(elems) ==
    IF Len(elems) = 0 THEN << >>
    ELSE IF Len(elems) = 1 THEN elems[1]
    ELSE elems[1] \o <<NL>> \o Join(Tail(elems))

\* fmt.Appendf([]byte(text), "\nAttached files:\n%s", strings.Join(links, "\n"))
Appendf(text, links) ==
    text \o <<NL>> \o AttachedFilesHeader \o <<NL>> \o Join(links)

\* The serial revisions attach only when a link was collected.
SerialAssemble(text, links) ==
    IF Len(links) > 0 THEN Appendf(text, links) ELSE text

\* The concurrent revision attaches whatever the range loop collected.
ConcurrentAssemble(text, links) == Appendf(text, links)

\* The quota test written as "the running total has reached the limit".
QuotaReached_AtLeast(usage, lim) == usage >= lim

\* The quota test written as "the running total has gone past the limit".
QuotaReached_Over(usage, lim) == usage > lim

\* The serial revisions' quota test, `currentUsage == limit`.
QuotaReached(usage, lim) == usage = lim

\* ------------------------------------------------------------- initial state
Init ==
    /\ rev \in Revisions
    /\ valid \in BOOLEAN
    /\ files \in UNION {[1..n -> 0..MaxSize] :
                          n \in 0..(IF Concurrent(rev) THEN MaxWorkers ELSE MaxFiles)}
    /\ parseFailed = FALSE
    /\ validated = FALSE
    /\ hpc = "parse"
    /\ status = 0
    /\ panicked = FALSE
    /\ enquiry = OriginalText
    /\ emailSent = 0
    /\ quotaQueries = 0
    /\ quotaFailed = FALSE
    /\ limit = 0
    /\ usageInDrive = 0
    /\ currentUsage = 0
    /\ idx = 0
    /\ uploadedFiles = << >>
    /\ uploadedFileLinks = << >>
    /\ attachedFiles = << >>
    /\ collected = << >>
    /\ createCalls = [i \in FileIds |-> 0]
    /\ outcome = [i \in FileIds |-> "none"]
    /\ deleteBuilt = {}
    /\ deleteCalls = [i \in FileIds |-> 0]
    /\ onBackend = {}
    /\ wpc = [i \in FileIds |-> "unborn"]
    /\ del = [i \in FileIds |-> "none"]
    /\ uploadCtxDone = FALSE
    /\ reqCanceled = FALSE
    /\ fileUploadWg = 0
    /\ cpc = "unborn"
    /\ uploadedFilesClosed = FALSE
    /\ failedToUploadClosed = FALSE

\* http.Error(w, ..., code); return
Respond(code) ==
    /\ status' = code
    /\ hpc' = "done"

\* panic(...): the handler goroutine unwinds; the recovering middleware
\* answers 500.
Panic ==
    /\ panicked' = TRUE
    /\ Respond(StatusInternalServerError)

\* ------------------------------------------------------------- common prefix
\* createPostmarkClient (second post.go revision), the method check (cloud
\* functions) and r.ParseMultipartForm.
Parse ==
    /\ hpc = "parse"
    /\ \/ /\ CreatesMailClient(rev)
          /\ Panic
          /\ UNCHANGED parseFailed
       \/ /\ HasMethodCheck(rev)
          /\ Respond(StatusMethodNotAllowed)
          /\ UNCHANGED <<panicked, parseFailed>>
       \/ /\ parseFailed' = TRUE
          /\ Respond(StatusInternalServerError)
          /\ UNCHANGED panicked
       \/ /\ hpc' = "validate"
          /\ UNCHANGED <<status, panicked, parseFailed>>
    /\ UNCHANGED <<inVars, validated, enquiry, emailSent, quotaVars, idx, serialVars,
                   storeVars, chanVars, ctxVars, concVars>>

\* validate.Struct(body), then files := r.MultipartForm.File["files"] and the
\* `if len(files) > 0` around the upload logic.
Validate ==
    /\ hpc = "validate"
    /\ IF ~valid
         THEN /\ Respond(StatusBadRequest)
              /\ UNCHANGED validated
         ELSE /\ validated' = TRUE
              /\ hpc' = IF GuardsEmptyFiles(rev) /\ Len(files) = 0
                          THEN "processed" ELSE "quota"
              /\ UNCHANGED status
    /\ UNCHANGED <<inVars, parseFailed, panicked, enquiry, emailSent, quotaVars, idx, serialVars,
                   storeVars, chanVars, ctxVars, concVars>>

\* QuotaQuery without the `return` after http.Error: the handler goes on with
\* the zero quota.
QuotaQuery_NoReturn ==
    /\ hpc = "quota"
    /\ quotaQueries' = quotaQueries + 1
    /\ \/ /\ quotaFailed' = TRUE
          /\ status' = StatusInternalServerError
          /\ limit' = 0
          /\ usageInDrive' = 0
          /\ currentUsage' = 0
          /\ idx' = 1
          /\ hpc' = IF Concurrent(rev) THEN "dispatch" ELSE "loop"
       \/ \E l \in 0..MaxQuota, u \in 0..MaxQuota :
            /\ limit' = l
            /\ usageInDrive' = u
            /\ currentUsage' = u
            /\ idx' = 1
            /\ hpc' = IF Concurrent(rev) THEN "dispatch" ELSE "loop"
            /\ UNCHANGED <<status, quotaFailed>>
    /\ UNCHANGED <<reqVars, enquiry, emailSent, uploadedFiles, uploadedFileLinks,
                   storeVars, chanVars, ctxVars, concVars>>

\* QuotaQuery asking the backend twice, once for the limit and once for the
\* usage.
QuotaQuery_Twice ==
    /\ hpc = "quota"
    /\ quotaQueries' = quotaQueries + 2
    /\ \/ /\ quotaFailed' = TRUE
          /\ Respond(StatusInternalServerError)
          /\ UNCHANGED <<limit, usageInDrive, currentUsage, idx>>
       \/ \E l \in 0..MaxQuota, u \in 0..MaxQuota :
            /\ limit' = l
            /\ usageInDrive' = u
            /\ currentUsage' = u
            /\ idx' = 1
            /\ hpc' = IF Concurrent(rev) THEN "dispatch" ELSE "loop"
            /\ UNCHANGED <<status, quotaFailed>>
    /\ UNCHANGED <<reqVars, enquiry, emailSent, uploadedFiles, uploadedFileLinks,
                   storeVars, chanVars, ctxVars, concVars>>

\* driveService.About.Get().Fields("storageQuota").Do()
QuotaQuery ==
    /\ hpc = "quota"
    /\ quotaQueries' = quotaQueries + 1
    /\ \/ /\ quotaFailed' = TRUE
          /\ Respond(StatusInternalServerError)
          /\ UNCHANGED <<limit, usageInDrive, currentUsage, idx>>
       \/ \E l \in 0..MaxQuota, u \in 0..MaxQuota :
            /\ limit' = l
            /\ usageInDrive' = u
            /\ currentUsage' = u
            /\ idx' = 1
            /\ hpc' = IF Concurrent(rev) THEN "dispatch" ELSE "loop"
            /\ UNCHANGED <<status, quotaFailed>>
    /\ UNCHANGED <<reqVars, enquiry, emailSent, uploadedFiles, uploadedFileLinks,
                   storeVars, chanVars, ctxVars, concVars>>

\* Finish with the environment lookups placed after the send: the
\* notification is out when the handler panics.
Finish_SendThenPanic ==
    /\ hpc = "processed"
    /\ emailSent' = IF SendsEmail(rev) THEN emailSent + 1 ELSE emailSent
    /\ \/ /\ ReadsMailEnv(rev)
          /\ Panic
       \/ /\ Respond(StatusOK)
          /\ UNCHANGED panicked
    /\ UNCHANGED <<inVars, parseFailed, validated, enquiry, quotaVars, idx,
                   serialVars, storeVars, chanVars, ctxVars, concVars>>

\* The mail step: the environment lookups that panic when a variable is
\* unset, postmarkClient.SendTemplatedEmail(...) and the handler's return; a
\* handler that returns without writing answers 200.
Finish ==
    /\ hpc = "processed"
    /\ \/ /\ ReadsMailEnv(rev)
          /\ Panic
          /\ UNCHANGED emailSent
       \/ /\ emailSent' = IF SendsEmail(rev) THEN emailSent + 1 ELSE emailSent
          /\ Respond(StatusOK)
          /\ UNCHANGED panicked
    /\ UNCHANGED <<inVars, parseFailed, validated, enquiry, quotaVars, idx,
                   serialVars, storeVars, chanVars, ctxVars, concVars>>

\* ------------------------------------------------------------- serial revisions
\* Head of `for _, fileHeader := range files`: the running total and the
\* quota test that breaks out of the loop.
SerialLoopHead ==
    /\ hpc = "loop"
    /\ IF idx > Len(files)
         THEN /\ hpc' = "afterLoop"
              /\ UNCHANGED currentUsage
         ELSE /\ currentUsage' = currentUsage + files[idx]
              /\ hpc' = IF QuotaReached(currentUsage', limit)
                          THEN "afterLoop" ELSE "open"
    /\ UNCHANGED <<reqVars, status, enquiry, emailSent, quotaVars, idx,
                   uploadedFiles, uploadedFileLinks, storeVars, chanVars,
                   ctxVars, concVars>>

\* fileHeader.Open()
SerialOpen ==
    /\ hpc = "open"
    /\ \/ /\ outcome' = [outcome EXCEPT ![idx] = "openErr"]
          /\ Respond(StatusInternalServerError)
       \/ /\ hpc' = "create"
          /\ UNCHANGED <<status, outcome>>
    /\ UNCHANGED <<reqVars, enquiry, emailSent, quotaVars, idx, serialVars,
                   createCalls, deleteBuilt, deleteCalls, onBackend, chanVars,
                   ctxVars, concVars>>

\* SerialCreate putting the new file and bullet in front of the slices.
SerialCreate_Prepend ==
    /\ hpc = "create"
    /\ createCalls' = [createCalls EXCEPT ![idx] = @ + 1]
    /\ \/ /\ outcome' = [outcome EXCEPT ![idx] = "createErr"]
          /\ Respond(StatusInternalServerError)
          /\ UNCHANGED <<onBackend, uploadedFiles, uploadedFileLinks, idx>>
       \/ /\ outcome' = [outcome EXCEPT ![idx] = "uploaded"]
          /\ onBackend' = onBackend \cup {idx}
          /\ uploadedFiles' = <<idx>> \o uploadedFiles
          /\ uploadedFileLinks' = <<Sprintf(WebContentLink(idx))>> \o uploadedFileLinks
          /\ idx' = idx + 1
          /\ hpc' = "loop"
          /\ UNCHANGED status
    /\ UNCHANGED <<reqVars, enquiry, emailSent, quotaVars, currentUsage,
                   deleteBuilt, deleteCalls, chanVars, ctxVars, concVars>>

\* driveService.Files.Create(...).Media(file).Do() and the two appends
SerialCreate ==
    /\ hpc = "create"
    /\ createCalls' = [createCalls EXCEPT ![idx] = @ + 1]
    /\ \/ /\ outcome' = [outcome EXCEPT ![idx] = "createErr"]
          /\ Respond(StatusInternalServerError)
          /\ UNCHANGED <<onBackend, uploadedFiles, uploadedFileLinks, idx>>
       \/ /\ outcome' = [outcome EXCEPT ![idx] = "uploaded"]
          /\ onBackend' = onBackend \cup {idx}
          /\ uploadedFiles' = Append(uploadedFiles, idx)
          /\ uploadedFileLinks' = Append(uploadedFileLinks, Sprintf(WebContentLink(idx)))
          /\ idx' = idx + 1
          /\ hpc' = "loop"
          /\ UNCHANGED status
    /\ UNCHANGED <<reqVars, enquiry, emailSent, quotaVars, currentUsage,
                   deleteBuilt, deleteCalls, chanVars, ctxVars, concVars>>

\* After the loop: on `currentUsage == limit`, one
\* driveService.Files.Delete(file.Id) per uploaded file -- the call object is
\* built and dropped, its Do() is never invoked, so nothing reaches the
\* backend -- and the 507; otherwise the enquiry is assembled.
SerialAfterLoop ==
    /\ hpc = "afterLoop"
    /\ IF QuotaReached(currentUsage, limit)
         THEN /\ deleteBuilt' = deleteBuilt \cup {uploadedFiles[k] : k \in 1..Len(uploadedFiles)}
              /\ Respond(StatusInsufficientStorage)
              /\ UNCHANGED enquiry
         ELSE /\ enquiry' = SerialAssemble(enquiry, uploadedFileLinks)
              /\ hpc' = "processed"
              /\ UNCHANGED <<status, deleteBuilt>>
    /\ UNCHANGED <<reqVars, emailSent, quotaVars, idx, serialVars, createCalls,
                   outcome, deleteCalls, onBackend, chanVars, ctxVars, concVars>>

SerialStep == SerialLoopHead \/ SerialOpen \/ SerialCreate \/ SerialAfterLoop

\* The dispatch loop without its fileUploadWg.Add(1).
Dispatch_NoAdd ==
    /\ hpc = "dispatch"
    /\ IF idx <= Len(files)
         THEN /\ wpc' = [wpc EXCEPT ![idx] = "entry"]
              /\ idx' = idx + 1
              /\ UNCHANGED <<hpc, cpc, fileUploadWg>>
         ELSE /\ cpc' = "wait"
              /\ hpc' = "select"
              /\ UNCHANGED <<fileUploadWg, wpc, idx>>
    /\ UNCHANGED <<reqVars, status, enquiry, emailSent, quotaVars, serialVars,
                   storeVars, uploadedFilesClosed, failedToUploadClosed, ctxVars,
                   attachedFiles, collected, del>>

\* ------------------------------------------------------------- concurrent revision
\* `for idx, fileHeader := range files { fileUploadWg.Add(1); go uploadFile(...) }`
\* one iteration per step; leaving the loop starts the goroutine that waits
\* for the WaitGroup and closes both channels.
Dispatch ==
    /\ hpc = "dispatch"
    /\ IF idx <= Len(files)
         THEN /\ fileUploadWg' = fileUploadWg + 1
              /\ wpc' = [wpc EXCEPT ![idx] = "entry"]
              /\ idx' = idx + 1
              /\ UNCHANGED <<hpc, cpc>>
         ELSE /\ cpc' = "wait"
              /\ hpc' = "select"
              /\ UNCHANGED <<fileUploadWg, wpc, idx>>
    /\ UNCHANGED <<reqVars, status, enquiry, emailSent, quotaVars, serialVars,
                   storeVars, uploadedFilesClosed, failedToUploadClosed, ctxVars,
                   attachedFiles, collected, del>>

\* The handler's `select { case <-uploadCtx.Done(): ... default: }`
Select ==
    /\ hpc = "select"
    /\ hpc' = IF uploadCtxDone THEN "rollback" ELSE "collect"
    /\ UNCHANGED <<reqVars, status, enquiry, emailSent, quotaVars, idx, serialVars,
                   storeVars, chanVars, ctxVars, concVars>>

\* uploadFile entered without the test of uploadCtx.Done().
WorkerEntry_NoCheck(i) ==
    /\ wpc[i] = "entry"
    /\ wpc' = [wpc EXCEPT ![i] = "open"]
    /\ UNCHANGED <<reqVars, hpc, status, enquiry, emailSent, quotaVars, idx,
                   serialVars, storeVars, chanVars, ctxVars, attachedFiles,
                   collected, del>>

\* uploadFile, entry: `select { case <-uploadCtx.Done(): return; default: }`;
\* the deferred wg.Done() runs on the return.
WorkerEntry(i) ==
    /\ wpc[i] = "entry"
    /\ IF uploadCtxDone
         THEN /\ wpc' = [wpc EXCEPT ![i] = "done"]
              /\ fileUploadWg' = fileUploadWg - 1
         ELSE /\ wpc' = [wpc EXCEPT ![i] = "open"]
              /\ UNCHANGED fileUploadWg
    /\ UNCHANGED <<reqVars, hpc, status, enquiry, emailSent, quotaVars, idx,
                   serialVars, storeVars, cpc, uploadedFilesClosed,
                   failedToUploadClosed, ctxVars, attachedFiles, collected, del>>

\* uploadFile: fileHeader.Open(); on an error the goroutine goes to
\* `failedToUpload <- idx`.
WorkerOpen(i) ==
    /\ wpc[i] = "open"
    /\ \/ /\ outcome' = [outcome EXCEPT ![i] = "openErr"]
          /\ wpc' = [wpc EXCEPT ![i] = "sendFailed"]
       \/ /\ wpc' = [wpc EXCEPT ![i] = "create"]
          /\ UNCHANGED outcome
    /\ UNCHANGED <<reqVars, hpc, status, enquiry, emailSent, quotaVars, idx,
                   serialVars, createCalls, deleteBuilt, deleteCalls, onBackend,
                   chanVars, ctxVars, attachedFiles, collected, del>>

\* uploadFile: driveService.Files.Create(...).Context(uploadCtx).Do(); on an
\* error the goroutine goes to `failedToUpload <- idx`, otherwise to
\* `uploadedFiles <- *res`.
WorkerCreate(i) ==
    /\ wpc[i] = "create"
    /\ createCalls' = [createCalls EXCEPT ![i] = @ + 1]
    /\ \/ /\ outcome' = [outcome EXCEPT ![i] = "createErr"]
          /\ wpc' = [wpc EXCEPT ![i] = "sendFailed"]
          /\ UNCHANGED onBackend
       \/ /\ outcome' = [outcome EXCEPT ![i] = "uploaded"]
          /\ onBackend' = onBackend \cup {i}
          /\ wpc' = [wpc EXCEPT ![i] = "sendUploaded"]
    /\ UNCHANGED <<reqVars, hpc, status, enquiry, emailSent, quotaVars, idx,
                   serialVars, deleteBuilt, deleteCalls, chanVars, ctxVars,
                   attachedFiles, collected, del>>

\* Both channels are unbuffered: a send completes only together with a
\* receive.  uploadedFiles is received by the handler's two range loops.
\* failedToUpload has no receive anywhere in the handler, so a goroutine at
\* "sendFailed" (lines 225 and 250) stays there, and the cancel() calls that
\* follow those sends (lines 228 and 253) are never reached.

\* RollbackRecv draining the channel without starting a delete goroutine.
RollbackRecv_NoDelete(i) ==
    /\ hpc = "rollback"
    /\ wpc[i] = "sendUploaded"
    /\ wpc' = [wpc EXCEPT ![i] = "exit"]
    /\ UNCHANGED <<reqVars, hpc, status, enquiry, emailSent, quotaVars, idx,
                   serialVars, storeVars, chanVars, ctxVars, attachedFiles,
                   collected, del>>

\* Rollback branch: `for file := range uploadedFiles { go Delete(file.Id).Do() }`
\* receiving from worker i.
RollbackRecv(i) ==
    /\ hpc = "rollback"
    /\ wpc[i] = "sendUploaded"
    /\ wpc' = [wpc EXCEPT ![i] = "exit"]
    /\ del' = [del EXCEPT ![i] = "spawned"]
    /\ deleteBuilt' = deleteBuilt \cup {i}
    /\ UNCHANGED <<reqVars, hpc, status, enquiry, emailSent, quotaVars, idx,
                   serialVars, createCalls, outcome, deleteCalls, onBackend,
                   chanVars, ctxVars, attachedFiles, collected>>

\* RollbackEnd answering only once every delete goroutine has finished.
RollbackEnd_AwaitsDeletes ==
    /\ hpc = "rollback"
    /\ uploadedFilesClosed
    /\ \A i \in FileIds : del[i] # "spawned"
    /\ Respond(StatusInternalServerError)
    /\ UNCHANGED <<reqVars, enquiry, emailSent, quotaVars, idx, serialVars,
                   storeVars, chanVars, ctxVars, concVars>>

\* Rollback branch: the range loop ends when uploadedFiles is closed; then
\* http.Error(w, "Failed to upload", 500) and return.
RollbackEnd ==
    /\ hpc = "rollback"
    /\ uploadedFilesClosed
    /\ Respond(StatusInternalServerError)
    /\ UNCHANGED <<reqVars, enquiry, emailSent, quotaVars, idx, serialVars,
                   storeVars, chanVars, ctxVars, concVars>>

\* Success branch: `for file := range uploadedFiles { attachedFiles = append(...) }`
\* receiving from worker i.
CollectRecv(i) ==
    /\ hpc = "collect"
    /\ wpc[i] = "sendUploaded"
    /\ wpc' = [wpc EXCEPT ![i] = "exit"]
    /\ attachedFiles' = Append(attachedFiles, Sprintf(WebContentLink(i)))
    /\ collected' = Append(collected, i)
    /\ UNCHANGED <<reqVars, hpc, status, enquiry, emailSent, quotaVars, idx,
                   serialVars, storeVars, chanVars, ctxVars, del>>

\* Success branch: the range loop ends when uploadedFiles is closed; the
\* enquiry is assembled.
CollectEnd ==
    /\ hpc = "collect"
    /\ uploadedFilesClosed
    /\ enquiry' = ConcurrentAssemble(enquiry, attachedFiles)
    /\ hpc' = "processed"
    /\ UNCHANGED <<reqVars, status, emailSent, quotaVars, idx, serialVars,
                   storeVars, chanVars, ctxVars, concVars>>

\* uploadFile returns after its send on uploadedFiles: the deferred wg.Done().
WorkerDone(i) ==
    /\ wpc[i] = "exit"
    /\ wpc' = [wpc EXCEPT ![i] = "done"]
    /\ fileUploadWg' = fileUploadWg - 1
    /\ UNCHANGED <<reqVars, hpc, status, enquiry, emailSent, quotaVars, idx,
                   serialVars, storeVars, cpc, uploadedFilesClosed,
                   failedToUploadClosed, ctxVars, attachedFiles, collected, del>>

\* The closing goroutine without its fileUploadWg.Wait().
CloseUploadedFiles_NoWait ==
    /\ cpc = "wait"
    /\ uploadedFilesClosed' = TRUE
    /\ cpc' = "closeFailed"
    /\ UNCHANGED <<reqVars, hpc, status, enquiry, emailSent, quotaVars, idx,
                   serialVars, storeVars, fileUploadWg, failedToUploadClosed,
                   ctxVars, concVars>>

\* `go func() { fileUploadWg.Wait(); close(uploadedFiles); ... }()`
CloseUploadedFiles ==
    /\ cpc = "wait"
    /\ fileUploadWg = 0
    /\ uploadedFilesClosed' = TRUE
    /\ cpc' = "closeFailed"
    /\ UNCHANGED <<reqVars, hpc, status, enquiry, emailSent, quotaVars, idx,
                   serialVars, storeVars, fileUploadWg, failedToUploadClosed,
                   ctxVars, concVars>>

\* `close(failedToUpload)`
CloseFailedToUpload ==
    /\ cpc = "closeFailed"
    /\ failedToUploadClosed' = TRUE
    /\ cpc' = "done"
    /\ UNCHANGED <<reqVars, hpc, status, enquiry, emailSent, quotaVars, idx,
                   serialVars, storeVars, fileUploadWg, uploadedFilesClosed,
                   ctxVars, concVars>>

\* A rollback goroutine `go driveService.Files.Delete(file.Id).Do()` runs its
\* call; the result is dropped.
DeleteDo(i) ==
    /\ del[i] = "spawned"
    /\ deleteCalls' = [deleteCalls EXCEPT ![i] = @ + 1]
    /\ \/ /\ del' = [del EXCEPT ![i] = "deleted"]
          /\ onBackend' = onBackend \ {i}
       \/ /\ del' = [del EXCEPT ![i] = "deleteErr"]
          /\ UNCHANGED onBackend
    /\ UNCHANGED <<reqVars, hpc, status, enquiry, emailSent, quotaVars, idx,
                   serialVars, createCalls, outcome, deleteBuilt, chanVars,
                   ctxVars, attachedFiles, collected, wpc>>

\* The request's context is canceled (the client goes away, the server shuts
\* down) once uploadCtx is derived from it: uploadCtx.Done() closes with it.
\* A cancellation before that point makes the quota query fail.
RequestCancel ==
    /\ Concurrent(rev)
    /\ hpc \in {"dispatch", "select", "rollback", "collect"}
    /\ ~reqCanceled
    /\ reqCanceled' = TRUE
    /\ uploadCtxDone' = TRUE
    /\ UNCHANGED <<reqVars, hpc, status, enquiry, emailSent, quotaVars, idx,
                   serialVars, storeVars, chanVars, concVars>>

HandlerStep ==
    \/ Parse \/ Validate \/ QuotaQuery \/ Finish
    \/ SerialStep
    \/ Dispatch \/ Select \/ RollbackEnd \/ CollectEnd
    \/ \E i \in FileIds : RollbackRecv(i) \/ CollectRecv(i)

WorkerStep ==
    \E i \in FileIds : WorkerEntry(i) \/ WorkerOpen(i) \/ WorkerCreate(i) \/ WorkerDone(i)

CloserStep == CloseUploadedFiles \/ CloseFailedToUpload

DeleteStep == \E i \in FileIds : DeleteDo(i)

\* Every step a goroutine of the program can take.
ProgramStep == HandlerStep \/ WorkerStep \/ CloserStep \/ DeleteStep

Next == ProgramStep \/ RequestCancel

Spec == Init /\ [][Next]_vars

\* The Go scheduler runs every runnable goroutine eventually.
FairSpec == Spec /\ WF_vars(ProgramStep)

\* ------------------------------------------------------------- vocabulary of the properties
Done == hpc = "done"

\* The quota query was made and answered.
QuotaKnown == quotaQueries = 1 /\ ~quotaFailed

\* Sum of the sizes of files 1..n.
RECURSIVE SumSizes(_)
SumSizes(n) == IF n = 0 THEN 0 ELSE files[n] + SumSizes(n - 1)

\* Projected usage after adding files 1..n to the snapshot.
Projected(n) == usageInDrive + SumSizes(n)

Failed(i) == outcome[i] \in {"openErr", "createErr"}

NoDeleteIssued == deleteBuilt = {} /\ \A i \in FileIds : deleteCalls[i] = 0

NoCreateIssued == \A i \in FileIds : createCalls[i] = 0

NoWorkerSpawned ==
    /\ \A i \in FileIds : wpc[i] = "unborn"
    /\ cpc = "unborn"
    /\ fileUploadWg = 0

\* The file ids whose links occur in a text, in order of occurrence.
RECURSIVE LinksIn(_)
LinksIn(text) ==
    IF Len(text) = 0 THEN << >>
    ELSE (IF text[1][1] = "link" THEN <<text[1][2]>> ELSE << >>) \o LinksIn(Tail(text))

Range(s) == {s[k] : k \in 1..Len(s)}

\* The ids the handler collected for attachment, in collection order.
CollectedIds == IF Concurrent(rev) THEN collected ELSE uploadedFiles

\* merge(originalText, links) of the design: the text unchanged when there is
\* no link, else the text, the separator line and one bullet line per link.
RECURSIVE Bullets(_)
Bullets(ids) ==
    IF Len(ids) = 0 THEN << >>
    ELSE <<NL, <<"- ", 0>>, <<"link", ids[1]>> >> \o Bullets(Tail(ids))

Merge(text, ids) ==
    IF Len(ids) = 0 THEN text
    ELSE text \o <<NL, <<"Attached files:", 0>> >> \o Bullets(ids)

\* ------------------------------------------------------------- C1
\* C1: concurrent revision -- once a worker's create call has failed and no
\* goroutine of the program can take another step, the batch was canceled,
\* every file uploaded in the batch has had a delete call, the handler has
\* answered 500 and nothing was forwarded.
C1_CreateFailureRollsBack ==
    (/\ Concurrent(rev)
     /\ \E i \in FileIds : outcome[i] = "createErr"
     /\ ~ENABLED ProgramStep)
    => /\ status = StatusInternalServerError
       /\ uploadCtxDone
       /\ \A j \in FileIds : outcome[j] = "uploaded" => deleteCalls[j] >= 1
       /\ emailSent = 0

\* ------------------------------------------------------------- C2
\* The least N at which the projected usage equals the limit, 0 if none.
FirstExactHit ==
    IF \E n \in FileIds : Projected(n) = limit
      THEN CHOOSE n \in FileIds :
             /\ Projected(n) = limit
             /\ \A m \in 1..(n - 1) : Projected(m) # limit
      ELSE 0

\* C2: main.go -- when file N brings the projected usage to exactly the limit
\* (files 1..N-1 having been uploaded), the handler ends with 507, no create
\* call was issued for file N or a later one, and every earlier file has had
\* a delete call executed and is gone from the backend.
C2_ExactLimitIsAllOrNothing ==
    (/\ rev = "main"
     /\ Done
     /\ QuotaKnown
     /\ FirstExactHit > 0
     /\ \A k \in 1..(FirstExactHit - 1) : outcome[k] = "uploaded")
    => /\ status = StatusInsufficientStorage
       /\ \A k \in FirstExactHit..Len(files) : createCalls[k] = 0
       /\ \A k \in 1..(FirstExactHit - 1) : deleteCalls[k] >= 1 /\ k \notin onBackend

\* ------------------------------------------------------------- C3
\* C3: concurrent revision -- the handler is never stuck: as long as it has
\* not returned, some goroutine of the program can take a step.
C3_HandlerNeverBlocksForever ==
    Concurrent(rev) => (Done \/ ENABLED ProgramStep)

\* ------------------------------------------------------------- C4
\* A batch well inside the budget, with no failing call and no cancellation.
WithinBudgetNoFailure ==
    /\ rev \in {"main", "part000"}
    /\ QuotaKnown
    /\ Len(files) > 0
    /\ SumSizes(Len(files)) < limit - usageInDrive
    /\ \A i \in FileIds : ~Failed(i)
    /\ ~reqCanceled

C5_NoFilesNoBackendCalls ==
    (validated /\ Len(files) = 0)
    => /\ quotaQueries = 0
       /\ NoCreateIssued
       /\ NoDeleteIssued
       /\ NoWorkerSpawned
       /\ enquiry = OriginalText
       /\ ~panicked => status \notin {StatusInternalServerError, StatusInsufficientStorage}

\* ------------------------------------------------------------- C6
\* C6: main.go -- when the handler has returned after an open or create
\* failure, no file created by the batch is left on the backend: each upload
\* made before the failure has had a delete call executed.
C6_PerFileErrorRollsBack ==
    (/\ rev = "main"
     /\ Done
     /\ \E k \in FileIds : Failed(k))
    => /\ onBackend = {}
       /\ \A j \in FileIds : outcome[j] = "uploaded" => deleteCalls[j] >= 1

\* ------------------------------------------------------------- C7
\* C7: main.go -- with no open or create call failing, a file of positive
\* size that brings the projected usage to the limit or beyond is never
\* uploaded, and the handler's answer is 507.
C7_ReachOrExceedIsExhaustion ==
    (/\ rev = "main"
     /\ QuotaKnown
     /\ \A j \in FileIds : ~Failed(j))
    => \A k \in FileIds :
         (files[k] > 0 /\ Projected(k) >= limit)
         => /\ createCalls[k] = 0
            /\ Done => status = StatusInsufficientStorage

\* ------------------------------------------------------------- C8
\* C8: concurrent revision -- a batch whose sizes bring the snapshot usage to
\* the limit or beyond ends with 507 and attaches no link.
C8_ConcurrentQuotaEnforced ==
    (/\ Concurrent(rev)
     /\ QuotaKnown
     /\ Len(files) > 0
     /\ Projected(Len(files)) >= limit
     /\ ~reqCanceled
     /\ Done)
    => /\ status = StatusInsufficientStorage
       /\ enquiry = OriginalText

\* ------------------------------------------------------------- C9
\* C9: main.go and the concurrent revision -- whenever the handler goes on to
\* forward, the enquiry is merge(original text, collected links): unchanged
\* without links, else followed by the separator line and one bullet per
\* collected link in collection order.
C9_EnquiryIsMergeOfCollected ==
    (/\ rev \in {"main", "part000"}
     /\ hpc = "processed")
    => enquiry = Merge(OriginalText, CollectedIds)

\* ------------------------------------------------------------- C10
\* C10: main.go and the concurrent revision -- after a failed quota query the
\* handler has answered 500 and returned, no worker was spawned, no create or
\* delete call was issued and no notification is sent.
C10_QuotaFailureAbortsBatch ==
    (rev \in {"main", "part000"} /\ quotaFailed)
    => /\ Done
       /\ status = StatusInternalServerError
       /\ NoWorkerSpawned
       /\ NoCreateIssued
       /\ NoDeleteIssued
       /\ emailSent = 0
       /\ enquiry = OriginalText

C10_Witness ==
    /\ quotaFailed
    /\ rev = "part000"
    /\ Len(files) = 2
    /\ Done

\* ------------------------------------------------------------- C11
\* C11: concurrent revision -- once a worker's open or create call has failed
\* and every goroutine of the program has run as far as it can, the batch's
\* cancellation signal has been fired.
C11_FailureFiresCancellation ==
    (/\ Concurrent(rev)
     /\ \E i \in FileIds : Failed(i)
     /\ ~ENABLED ProgramStep)
    => uploadCtxDone

\* ------------------------------------------------------------- C12
\* Worker i has been dispatched and has not run its entry check yet.
NotStarted(i) == wpc[i] \in {"unborn", "entry"}

\* C12: concurrent revision -- once the cancellation signal has fired, a
\* worker that has not passed its entry check can only return: it opens no
\* stream, issues no create call, hands nothing to the handler's range loops,
\* and so never begins a remote create call.
C12_CanceledWorkerReturnsAtEntry ==
    [][\A i \in FileIds :
         (uploadCtxDone /\ NotStarted(i))
         => /\ wpc'[i] \in {"unborn", "entry", "done"}
            /\ outcome'[i] = "none"
            /\ createCalls'[i] = 0
            /\ del'[i] = "none"
            /\ i \notin Range(collected')]_vars

C12_Witness ==
    /\ Concurrent(rev)
    /\ uploadCtxDone
    /\ \E i, j \in FileIds :
         /\ wpc[i] = "done" /\ outcome[i] = "none" /\ createCalls[i] = 0
         /\ outcome[j] = "uploaded"

\* ------------------------------------------------------------- C13
\* C13: concurrent revision -- no worker issues more than one create call,
\* and once every goroutine has run as far as it can no worker is left with
\* an outcome, Uploaded or Failed, that it has not handed over.
C13_OutcomeDeliveredOnce ==
    Concurrent(rev)
    => /\ \A i \in FileIds : createCalls[i] <= 1
       /\ ~ENABLED ProgramStep
          => \A i \in FileIds : wpc[i] \notin {"sendFailed", "sendUploaded"}

\* ------------------------------------------------------------- C14
\* The serial loop stopped on its quota test: some file brought the projected
\* usage to exactly the limit, every file before it having been uploaded.
QuotaAbort ==
    /\ QuotaKnown
    /\ FirstExactHit > 0
    /\ \A k \in 1..(FirstExactHit - 1) : outcome[k] = "uploaded"

BackendCallFailed == quotaFailed \/ \E i \in FileIds : Failed(i)

\* A request the validator rejects never reaches the storage backend.
InvalidMakesNoBackendCall ==
    ~valid => quotaQueries = 0 /\ NoCreateIssued /\ NoDeleteIssued

\* C14 as stated: main.go answers 507 exactly when the batch was stopped for
\* quota, 500 exactly when the quota query, an open or a create call failed,
\* and 400 on a validation failure, before any backend call.
C14_StatusNamesTheCause ==
    rev = "main"
    => /\ InvalidMakesNoBackendCall
       /\ Done => /\ status = StatusInsufficientStorage <=> QuotaAbort
                  /\ status = StatusInternalServerError <=> BackendCallFailed
                  /\ status = StatusBadRequest <=> (~parseFailed /\ ~valid)

\* C14 as amended: as above, with the two further causes of a 500 that
\* main.go has -- a multipart form that does not parse, and a panic of the
\* mail step, recovered by the middleware.
C14_StatusNamesTheCauseOrParseOrPanic ==
    rev = "main"
    => /\ InvalidMakesNoBackendCall
       /\ Done => /\ status = StatusInsufficientStorage <=> QuotaAbort
                  /\ status = StatusInternalServerError
                       <=> (BackendCallFailed \/ parseFailed \/ panicked)
                  /\ status = StatusBadRequest <=> (~parseFailed /\ ~valid)

C14_Witness ==
    /\ rev = "main"
    /\ Done
    /\ status = StatusInsufficientStorage
    /\ Len(uploadedFiles) = 2

\* ------------------------------------------------------------- C15
\* C15: concurrent revision -- the handler is past its test of
\* uploadCtx.Done() only when every dispatched worker has finished.
C15_SelectAfterWorkersFinish ==
    (Concurrent(rev) /\ hpc \in {"rollback", "collect"})
    => \A i \in FileIds : wpc[i] = "done"

\* ------------------------------------------------------------- C16
\* C16: concurrent revision -- a handler that returns after the cancellation
\* signal fired has answered 500, has forwarded nothing, and has started a
\* delete call for every file uploaded in the batch.
C16_CancellationAlwaysRollsBack ==
    (Concurrent(rev) /\ Done /\ uploadCtxDone)
    => /\ status = StatusInternalServerError
       /\ emailSent = 0
       /\ \A j \in FileIds : outcome[j] = "uploaded" => del[j] # "none"

\* ------------------------------------------------------------- C17
\* The handler got as far as starting the goroutine that closes the channels.
Dispatched == cpc # "unborn"

AllWorkersFinished == \A i \in FileIds : wpc[i] = "done"

\* C17 as stated: concurrent revision -- when the handler has returned, every
\* dispatched worker has finished and both result channels are closed.
C17_ReturnsWithBothChannelsClosed ==
    (Concurrent(rev) /\ Done /\ Dispatched)
    => /\ AllWorkersFinished
       /\ fileUploadWg = 0
       /\ uploadedFilesClosed
       /\ failedToUploadClosed

\* C17 as amended: when the handler has returned, every dispatched worker has
\* finished and uploadedFiles is closed; the closing goroutine is at or past
\* its close of failedToUpload.
C17_ReturnsWithWorkersFinished ==
    (Concurrent(rev) /\ Done /\ Dispatched)
    => /\ AllWorkersFinished
       /\ fileUploadWg = 0
       /\ uploadedFilesClosed
       /\ cpc \in {"closeFailed", "done"}

C17_Witness ==
    /\ Concurrent(rev)
    /\ Done
    /\ Len(files) = 2
    /\ AllWorkersFinished
    /\ \E i \in FileIds : outcome[i] = "uploaded"
    /\ ~failedToUploadClosed

\* ------------------------------------------------------------- C18
\* The files a create call was issued for.
CreateIssued == {i \in FileIds : createCalls[i] > 0}

\* The sequence 1, 2, ..., n.
Iota(n) == [k \in 1..n |-> k]

\* C18: main.go -- at every point the files with a create call are a prefix
\* of the input list and were uploaded in input order; when the batch passes,
\* the links in the enquiry are those of all files, in input order.
C18_SerialKeepsInputOrder ==
    rev = "main"
    => /\ \E n \in 0..Len(files) : CreateIssued = 1..n
       /\ uploadedFiles = Iota(Len(uploadedFiles))
       /\ hpc = "processed" => LinksIn(enquiry) = Iota(Len(files))

C18_Witness ==
    /\ rev = "main"
    /\ hpc = "processed"
    /\ Len(files) = 3
    /\ LinksIn(enquiry) = <<1, 2, 3>>

\* ------------------------------------------------------------- C19
\* Worker i was dispatched, or a create call was issued for file i.
Touched(i) == createCalls[i] > 0 \/ wpc[i] # "unborn"

\* C19: main.go and the concurrent revision -- a validated request with files
\* issues exactly one quota query, no worker is dispatched and no create call
\* issued before that query was answered, and the limit it reported is never
\* changed afterwards.
C19_QuotaSnapshotOnce ==
    /\ [](rev \in {"main", "part000"}
          => /\ quotaQueries <= 1
             /\ (validated /\ Len(files) > 0 /\ hpc # "quota") => quotaQueries = 1
             /\ \A i \in FileIds : Touched(i) => QuotaKnown)
    /\ [][(rev \in {"main", "part000"} /\ QuotaKnown)
          => limit' = limit /\ usageInDrive' = usageInDrive]_vars

C19_Witness ==
    /\ Concurrent(rev)
    /\ QuotaKnown
    /\ limit = 2
    /\ \A i \in FileIds : createCalls[i] = 1
    /\ Len(files) = 2

\* ------------------------------------------------------------- C20
\* C20: concurrent revision -- no delete call is made twice for a file; once
\* the range loop of the rollback branch can end, the handler can answer,
\* whatever state the delete goroutines are in; and a handler that returned
\* from the rollback branch answered 500 whatever the deletes returned.
C20_RollbackDeletesFireAndForget ==
    Concurrent(rev)
    => /\ \A i \in FileIds : deleteCalls[i] <= 1
       /\ (hpc = "rollback" /\ uploadedFilesClosed) => ENABLED RollbackEnd
       /\ (Done /\ \E i \in FileIds : del[i] # "none")
          => status = StatusInternalServerError

C20_Witness ==
    /\ Concurrent(rev)
    /\ Done
    /\ status = StatusInternalServerError
    /\ \E i, j \in FileIds : del[i] = "spawned" /\ del[j] = "deleteErr"

\* ------------------------------------------------------------- C21
\* The handler of the concurrent revision took the rollback branch of its
\* select: it is in the branch's range loop, or has answered from it.
TookRollback ==
    /\ Concurrent(rev)
    /\ \/ hpc = "rollback"
       \/ Done /\ Dispatched /\ status = StatusInternalServerError

\* C21: concurrent revision, rollback branch -- a delete goroutine exists only
\* for a file that was uploaded and makes at most one call; once uploadedFiles
\* is closed every uploaded file was received and has its delete goroutine;
\* and when nothing can move any more every uploaded file had exactly one
\* delete call.
C21_RollbackDeletesEveryUpload ==
    TookRollback
    => /\ \A i \in FileIds :
            /\ deleteCalls[i] <= 1
            /\ del[i] # "none" => outcome[i] = "uploaded"
       /\ uploadedFilesClosed
          => \A i \in FileIds : outcome[i] = "uploaded" => del[i] # "none"
       /\ ~ENABLED ProgramStep
          => \A i \in FileIds : outcome[i] = "uploaded" => deleteCalls[i] = 1

C21_Witness ==
    /\ TookRollback
    /\ Done
    /\ ~ENABLED ProgramStep
    /\ \E i, j \in FileIds :
         /\ i # j
         /\ outcome[i] = "uploaded" /\ deleteCalls[i] = 1
         /\ outcome[j] = "uploaded" /\ deleteCalls[j] = 1

\* ------------------------------------------------------------- C22
\* A finished run of main.go on a validated request whose quota query, opens
\* and creates all succeeded.
SerialRunWithoutFailure ==
    /\ rev = "main"
    /\ Done
    /\ validated
    /\ ~quotaFailed
    /\ \A i \in FileIds : ~Failed(i)

Sending(i) == wpc[i] \in {"sendFailed", "sendUploaded"}

\* The workers that were dispatched and have not run their wg.Done yet.
Running == {i \in FileIds : wpc[i] \notin {"unborn", "done"}}

\* C23: concurrent revision -- the wait-group counter is the number of running
\* workers; a channel is closed only when every worker of the batch was
\* dispatched and has run its wg.Done, so no worker is at a send on a closed
\* channel; the closing goroutine is never about to close a channel that is
\* already closed; and a worker that has run its wg.Done does nothing more, a
\* closed channel stays closed.
C23_NoSendOnClosedChannel ==
    /\ [](Concurrent(rev)
          => /\ fileUploadWg = Cardinality(Running)
             /\ (uploadedFilesClosed \/ failedToUploadClosed)
                => /\ \A i \in FileIds : wpc[i] = "done"
                   /\ fileUploadWg = 0
             /\ \A i \in FileIds : Sending(i)
                  => ~uploadedFilesClosed /\ ~failedToUploadClosed
             /\ cpc = "wait" => ~uploadedFilesClosed
             /\ cpc \in {"wait", "closeFailed"} => ~failedToUploadClosed)
    /\ [][/\ \A i \in FileIds : wpc[i] = "done" => wpc'[i] = "done"
          /\ uploadedFilesClosed => uploadedFilesClosed'
          /\ failedToUploadClosed => failedToUploadClosed']_vars

C23_Witness ==
    /\ Concurrent(rev)
    /\ uploadedFilesClosed
    /\ failedToUploadClosed
    /\ Len(files) = 2
    /\ \A i \in FileIds : wpc[i] = "done" /\ outcome[i] = "uploaded"

\* ------------------------------------------------------------- C24
ErrorStatus ==
    {StatusBadRequest, StatusInsufficientStorage, StatusInternalServerError}

\* C24: main.go and the concurrent revision -- the notification is sent at
\* most once; when it was sent the handler had validated the request, passed
\* attachment processing with no failed quota query, open or create, and
\* answered 200; a handler that answered 400, 507 or 500 sent nothing.
C24_NotificationOnlyAfterSuccess ==
    rev \in {"main", "part000"}
    => /\ emailSent <= 1
       /\ emailSent = 1
          => /\ Done
             /\ status = StatusOK
             /\ validated
             /\ ~quotaFailed
             /\ ~TookRollback
             /\ \A i \in FileIds : ~Failed(i)
       /\ (Done /\ status \in ErrorStatus) => emailSent = 0

C24_Witness ==
    /\ rev = "main"
    /\ Done
    /\ status = StatusInsufficientStorage
    /\ Len(files) = 2
    /\ outcome[1] = "uploaded"
    /\ emailSent = 0

====
